---- MODULE Spec2Model ----
(***************************************************************************)
(* Component discovery of codebase-evaluator                              *)
(* (src/src/component_discovery.py): the DependencyGraph, the             *)
(* ComponentCache and discover_components, as state machines.             *)
(* The stage graph of the analysis workflow (src/src/workflow.py) and one   *)
(* invocation of it follow as a further state machine.                     *)
(*                                                                         *)
(* Strings the code inspects character by character (package identifiers, *)
(* raw dependency strings, component names) are sequences of one-letter   *)
(* strings, so that str.startswith and str.split('.') are computed.       *)
(***************************************************************************)
EXTENDS Integers, Sequences, FiniteSets, TLC

VARIABLES
    g,         \* DependencyGraph object driven through its public methods
    hcRes,     \* outcome of the has_cycles() call that was the last operation
    tree,      \* the source tree: file -> modification time, 0 when absent
    clock,     \* the wall clock
    max_size,  \* ComponentCache.max_size
    dir,       \* the cache directory: path -> number of the file it names
    ino,       \* the files of the cache directory: number -> text and mtime
    pc,        \* where each process stands in the call it is making
    loc,       \* the locals of that call
    last,      \* history: the call or event that came last
    fresh,     \* history: the last completed save and the source edits since
    origin     \* history: entry path -> the tree state its writer fingerprinted

graphVars == <<g, hcRes>>
cacheVars == <<tree, clock, max_size, dir, ino, pc, loc, last, fresh, origin>>
vars == <<g, hcRes, tree, clock, max_size, dir, ino, pc, loc, last, fresh, origin>>

----------------------------------------------------------------------------
(* Bounds of the model *)

\* number of add_edge calls made on the DependencyGraph under test
MaxEdgeCalls == 4

\* the clock stops here: it ticks once per save
MaxClock == 3

\* largest configured cache budget
MaxBudget == 2

\* largest budget of the runs of eviction on its own
MaxEvictBudget == 6

----------------------------------------------------------------------------
(* Helpers *)

Range(s) == { s[i] : i \in DOMAIN s }

\* all orders in which the elements of S can be enumerated
Perms(S) == { s \in [1..Cardinality(S) -> S] : \A i, j \in 1..Cardinality(S) : s[i] = s[j] => i = j }

RECURSIVE SetToSeq(_)
\* the elements of S in one fixed order
SetToSeq(S) == IF S = {} THEN <<>> ELSE LET x == CHOOSE y \in S : TRUE IN <<x>> \o SetToSeq(S \ {x})

\* the elements of S in the order ord enumerates them
OrderSeq(S, ord) == SelectSeq(ord, LAMBDA x : x \in S)

----------------------------------------------------------------------------
(* DependencyGraph: two defaultdict(set); a dict keeps insertion order, so  *)
(* _forward is its key sequence fkeys plus the mapping fwd.                *)

GNodeSeq == << <<"a">>, <<"b">>, <<"c">>, <<"d">> >>

\* DependencyGraph.__init__
NewGraph == [fkeys |-> <<>>, fwd |-> <<>>, rev |-> <<>>]

\* defaultdict.__setitem__ / __missing__ on a mapping with no key order of interest
SetItem(f, k, v) == [x \in (DOMAIN f) \cup {k} |-> IF x = k THEN v ELSE f[x]]

\* dict.get(k, set())
GetOrEmpty(f, k) == IF k \in DOMAIN f THEN f[k] ELSE {}

\* DependencyGraph.add_node
add_node(gr, c) ==
    IF c \in DOMAIN gr.fwd
    THEN gr
    ELSE [fkeys |-> Append(gr.fkeys, c),
          fwd   |-> SetItem(gr.fwd, c, {}),
          rev   |-> SetItem(gr.rev, c, {})]

\* DependencyGraph.add_edge
add_edge(gr, a, b) ==
    [fkeys |-> IF a \in DOMAIN gr.fwd THEN gr.fkeys ELSE Append(gr.fkeys, a),
     fwd   |-> SetItem(gr.fwd, a, GetOrEmpty(gr.fwd, a) \cup {b}),
     rev   |-> SetItem(gr.rev, b, GetOrEmpty(gr.rev, b) \cup {a})]

\* DependencyGraph.get_dependencies
get_dependencies(gr, c) == GetOrEmpty(gr.fwd, c)

\* DependencyGraph.get_dependents
get_dependents(gr, c) == GetOrEmpty(gr.rev, c)

\* every name the graph mentions
GraphNames(gr) == (DOMAIN gr.fwd) \cup (DOMAIN gr.rev)
                    \cup UNION { gr.fwd[k] : k \in DOMAIN gr.fwd }
                    \cup UNION { gr.rev[k] : k \in DOMAIN gr.rev }

\* the forward edge set
Edges(gr) == { <<a, b>> \in GraphNames(gr) \X GraphNames(gr) : a \in DOMAIN gr.fwd /\ b \in gr.fwd[a] }

RECURSIVE visit(_, _, _, _)
RECURSIVE VisitDeps(_, _, _, _)

\* the closure visit() inside has_cycles; st carries visited, path, the keys of
\* _forward (self._forward[component] inserts a missing key) and the result
visit(gr, c, st, ord) ==
    IF c \in st.path THEN [st EXCEPT !.found = TRUE]
    ELSE IF c \in st.visited THEN st
    ELSE LET st1 == [st EXCEPT !.visited = @ \cup {c},
                               !.path = @ \cup {c},
                               !.keys = IF c \in Range(@) THEN @ ELSE Append(@, c)]
             st2 == VisitDeps(gr, OrderSeq(GetOrEmpty(gr.fwd, c), ord), st1, ord)
         IN  IF st2.found THEN st2 ELSE [st2 EXCEPT !.path = @ \ {c}]

\* for dep in self._forward[component]: if visit(dep): return True
VisitDeps(gr, deps, st, ord) ==
    IF deps = <<>> THEN st
    ELSE LET s1 == visit(gr, Head(deps), st, ord)
         IN  IF s1.found THEN s1 ELSE VisitDeps(gr, Tail(deps), s1, ord)

RECURSIVE AnyVisit(_, _, _, _)

\* any(visit(component) for component in self._forward): the dict iterator raises
\* RuntimeError at the next step when a visit has inserted a key
AnyVisit(gr, i, st, ord) ==
    IF i > Len(gr.fkeys) THEN [res |-> "false", keys |-> st.keys]
    ELSE LET s1 == visit(gr, gr.fkeys[i], st, ord)
         IN  IF s1.found THEN [res |-> "true", keys |-> s1.keys]
             ELSE IF Len(s1.keys) # Len(st.keys) THEN [res |-> "RuntimeError", keys |-> s1.keys]
             ELSE AnyVisit(gr, i + 1, s1, ord)

\* DependencyGraph.has_cycles: its outcome and the keys _forward holds afterwards;
\* ord is the order in which this run's sets enumerate their elements
has_cycles(gr, ord) ==
    AnyVisit(gr, 1, [visited |-> {}, path |-> {}, keys |-> gr.fkeys, found |-> FALSE], ord)

\* The orders in which a run may enumerate its sets (string hashing is seeded per
\* process). The order decides only which missing keys visit() inserts and in
\* which order, so one order stands for all when no name lacks a key.
SetOrders(gr) ==
    IF GraphNames(gr) \subseteq DOMAIN gr.fwd
    THEN { SetToSeq(GraphNames(gr)) }
    ELSE Perms(GraphNames(gr))

\* the graph after has_cycles() left keys behind in _forward
AfterHasCycles(gr, keys) ==
    [gr EXCEPT !.fkeys = keys,
               !.fwd = [x \in Range(keys) |-> GetOrEmpty(gr.fwd, x)]]

----------------------------------------------------------------------------
(* Strings *)

\* "a.b" as the code sees it: one element per character
Str3(x, y, z) == <<x, y, z>>
Str4(x, y, z, w) == <<x, y, z, w>>

\* position of the last '.' of s, 0 when there is none
LastDot(s) == IF \E i \in DOMAIN s : s[i] = "."
              THEN CHOOSE i \in DOMAIN s : s[i] = "." /\ \A j \in DOMAIN s : s[j] = "." => j <= i
              ELSE 0

\* s.split('.')[-1]
LastSegment(s) == SubSeq(s, LastDot(s) + 1, Len(s))

\* '.'.join(s.split('.')[:-1])
DropLastSegment(s) == SubSeq(s, 1, LastDot(s) - 1)

\* a prefix test that wants the prefix to end where a segment ends
StartsWithSegments(s, p) ==
    /\ Len(p) <= Len(s)
    /\ SubSeq(s, 1, Len(p)) = p
    /\ Len(p) = Len(s) \/ s[Len(p) + 1] = "."

\* s.startswith(p)
StartsWith(s, p) == Len(p) <= Len(s) /\ SubSeq(s, 1, Len(p)) = p

\* a dict: its keys in insertion order and its mapping
NewDict == [keys |-> <<>>, val |-> <<>>]
DictSet(d, k, v) == [keys |-> IF k \in DOMAIN d.val THEN d.keys ELSE Append(d.keys, k),
                     val  |-> SetItem(d.val, k, v)]
\* dict.values() as a list
DictValues(d) == [i \in DOMAIN d.keys |-> d.val[d.keys[i]]]

----------------------------------------------------------------------------
(* The source tree under repo_path.  A tree state gives every source file   *)
(* its modification time, 0 for a file that is absent.                     *)

RepoPath == "/repo"

Files == {"f1", "f2", "f3", "f4"}

\* Files a scan makes no component of: f5 declares the package "a.", whose last
\* segment is empty; f6 is not UTF-8 text; f7 is a link to a file that does not
\* exist, which can be neither opened nor stat'ed.  A tree state over Files
\* alone has none of them.
OddFiles == {"f5", "f6", "f7"}
AllFiles == Files \cup OddFiles

\* the order in which os.walk meets the files
WalkSeq == <<"f1", "f6", "f2", "f4", "f5", "f3", "f7">>

\* the source root a file lies under: src/main/java or src/test/java
FileRoot(f) == IF f \in {"f3", "f7"} THEN "test" ELSE "main"

\* the directory holding the file, and the file's path
FileDir(f) == CASE f \in {"f1", "f6"} -> "/repo/src/main/java/a/b"
                [] f = "f2" -> "/repo/src/main/java/a/bc"
                [] f = "f4" -> "/repo/src/main/java/c/b"
                [] f = "f5" -> "/repo/src/main/java/a/e"
                [] OTHER    -> "/repo/src/test/java/a/b"
FilePath(f) == <<FileDir(f), f>>

\* What the text of each file declares: its package statement (<<>> when it has
\* none), its import statements, and what extract_metadata finds in it.
\*   f1: package a.b;   import a.bc.K;
\*   f2: package a.bc;  import a.b.X;
\*   f3: package a.b;   (a test source)
\*   f4: package c.b;   import a.b.X;
\*   f5: package a.;
\*   f6, f7: as f3, were they read
FileContent(f) ==
    CASE f = "f5" -> [package |-> <<"a", ".">>,
                      imports |-> {},
                      has_interfaces |-> FALSE, has_abstract_classes |-> FALSE,
                      is_test |-> FALSE, line_count |-> 1]
      [] f = "f1" -> [package |-> Str3("a", ".", "b"),
                      imports |-> { <<"a", ".", "b", "c", ".", "K">> },
                      has_interfaces |-> TRUE, has_abstract_classes |-> FALSE,
                      is_test |-> FALSE, line_count |-> 2]
      [] f = "f2" -> [package |-> Str4("a", ".", "b", "c"),
                      imports |-> { <<"a", ".", "b", ".", "X">> },
                      has_interfaces |-> FALSE, has_abstract_classes |-> FALSE,
                      is_test |-> FALSE, line_count |-> 1]
      [] f = "f4" -> [package |-> Str3("c", ".", "b"),
                      imports |-> { <<"a", ".", "b", ".", "X">> },
                      has_interfaces |-> FALSE, has_abstract_classes |-> TRUE,
                      is_test |-> FALSE, line_count |-> 1]
      [] OTHER    -> [package |-> Str3("a", ".", "b"),
                      imports |-> {},
                      has_interfaces |-> FALSE, has_abstract_classes |-> FALSE,
                      is_test |-> TRUE, line_count |-> 1]

\* os.path.exists(path) for a directory of the tree
PathExists(t, path) == \E f \in DOMAIN t : t[f] > 0 /\ FileDir(f) = path

\* JavaFileAnalyzer.extract_package
extract_package(content) == content.package

\* JavaFileAnalyzer.find_dependencies
find_dependencies(content) ==
    { DropLastSegment(imp) : imp \in { i \in content.imports : LastDot(i) > 0 } }

\* JavaFileAnalyzer.extract_metadata
extract_metadata(content) ==
    [has_interfaces |-> content.has_interfaces,
     has_abstract_classes |-> content.has_abstract_classes,
     is_test |-> content.is_test,
     line_count |-> content.line_count]

\* a constructor that accepts every component
ValidAlways(t, c) == TRUE

\* Component.__post_init__: the component is accepted
ValidComponent(t, c) == c.name # <<>> /\ c.package # <<>> /\ PathExists(t, c.path)

\* first pass of discover_components: the .java files under src/<src_type>/java
JavaFiles(t, src_type) ==
    SelectSeq(WalkSeq, LAMBDA f : f \in DOMAIN t /\ t[f] > 0 /\ FileRoot(f) = src_type)

\* open(...) and f.read() give the text of the file
Readable(f) == f \notin {"f6", "f7"}

\* the message of the except clause that catches the failed read
ReadError(f) == IF f = "f6" THEN "Skipping binary file: f6" ELSE "Error reading f7"

\* "First pass": the files of java_files, and the messages for the others
ReadFiles(files) == SelectSeq(files, Readable)
ReadMessages(files) ==
    LET failed == SelectSeq(files, LAMBDA f : ~Readable(f))
    IN  [i \in DOMAIN failed |-> ReadError(failed[i])]

RECURSIVE GroupByPackage(_, _)
\* package_files: package -> the files declaring it, in the order met
GroupByPackage(files, d) ==
    IF files = <<>> THEN d
    ELSE LET f == Head(files)
             pk == extract_package(FileContent(f))
         IN  IF pk = <<>> THEN GroupByPackage(Tail(files), d)
             ELSE GroupByPackage(Tail(files),
                      DictSet(d, pk, Append(IF pk \in DOMAIN d.val THEN d.val[pk] ELSE <<>>, f)))

\* bool -> the int that metadata[...] |= flag leaves in a defaultdict(int)
Bit(b) == IF b THEN 1 ELSE 0

RECURSIVE SumLines(_)
SumLines(files) == IF files = <<>> THEN 0
                   ELSE extract_metadata(FileContent(Head(files))).line_count + SumLines(Tail(files))

\* the Component built for one package group of one source root
MakeComponent(package, files, src_type) ==
    [name |-> IF src_type = "test" THEN LastSegment(package) \o <<"T", "e", "s", "t">>
              ELSE LastSegment(package),
     package |-> package,
     path |-> FileDir(files[1]),
     source_files |-> [i \in DOMAIN files |-> FilePath(files[i])],
     dependencies |-> UNION { find_dependencies(FileContent(files[i])) : i \in DOMAIN files },
     is_test |-> (src_type = "test"),
     metadata |-> [file_count |-> Len(files),
                   total_lines |-> SumLines(files),
                   has_interfaces |-> Bit(\E i \in DOMAIN files : extract_metadata(FileContent(files[i])).has_interfaces),
                   has_abstract_classes |-> Bit(\E i \in DOMAIN files : extract_metadata(FileContent(files[i])).has_abstract_classes),
                   has_tests |-> Bit(\E i \in DOMAIN files : extract_metadata(FileContent(files[i])).is_test)]]

RECURSIVE CreateComponents(_, _, _, _, _)
\* "Create components": one per package group; an invalid one is skipped
CreateComponents(t, groups, i, src_type, st) ==
    IF i > Len(groups.keys) THEN st
    ELSE LET pk == groups.keys[i]
             c  == MakeComponent(pk, groups.val[pk], src_type)
         IN  IF ValidComponent(t, c)
             THEN CreateComponents(t, groups, i + 1, src_type,
                      [st EXCEPT !.components = DictSet(@, c.name, c),
                                 !.graph = add_node(@, c.name)])
             ELSE CreateComponents(t, groups, i + 1, src_type,
                      [st EXCEPT !.messages = Append(@, "Skipping invalid component")])

\* one round of "for src_type in ['main', 'test']"
ScanRoot(t, src_type, st) ==
    IF JavaFiles(t, src_type) = <<>> THEN st
    ELSE CreateComponents(t, GroupByPackage(ReadFiles(JavaFiles(t, src_type)), NewDict), 1, src_type,
             [st EXCEPT !.messages = @ \o ReadMessages(JavaFiles(t, src_type))])

\* the (component, other) pairs that "Add dependency edges" joins
EdgePairs(components) ==
    { <<c.name, o.name>> : <<c, o>> \in
        { <<c, o>> \in Range(DictValues(components)) \X Range(DictValues(components)) :
            \E dep \in c.dependencies : StartsWith(o.package, dep) } }

RECURSIVE AddEdges(_, _)
AddEdges(gr, pairs) ==
    IF pairs = <<>> THEN gr
    ELSE AddEdges(add_edge(gr, Head(pairs)[1], Head(pairs)[2]), Tail(pairs))

\* "Add dependency edges"
ResolveEdges(components, gr) == AddEdges(gr, SetToSeq(EdgePairs(components)))

----------------------------------------------------------------------------
(* ComponentCache: the cache key *)

RECURSIVE KeyPartsNoMtime(_, _)
\* the hasher fed the paths alone
KeyPartsNoMtime(t, files) ==
    IF files = <<>> THEN <<>>
    ELSE IF Head(files) \in DOMAIN t /\ t[Head(files)] > 0
         THEN <<FilePath(Head(files)), ":">> \o KeyPartsNoMtime(t, Tail(files))
         ELSE KeyPartsNoMtime(t, Tail(files))

RECURSIVE KeyParts(_, _)
\* the f"{path}:{mtime}" strings the hasher is fed, in walk order
KeyParts(t, files) ==
    IF files = <<>> THEN <<>>
    ELSE IF Head(files) \in DOMAIN t /\ t[Head(files)] > 0
         THEN <<FilePath(Head(files)), ":", t[Head(files)]>> \o KeyParts(t, Tail(files))
         ELSE KeyParts(t, Tail(files))

\* os.path.getmtime(file_path) gives the file's mtime
Statable(f) == f # "f7"

\* ComponentCache._get_cache_key raises OSError: the walk meets a file it cannot
\* stat (no tree state over Files alone holds one)
KeyFails(t) == \E f \in DOMAIN t : t[f] > 0 /\ ~Statable(f)

\* ComponentCache._get_cache_key: the digest is taken to be as good as the bytes
\* it was fed (SHA-256 without collisions)
CacheKey(t) == <<RepoPath>> \o KeyParts(t, WalkSeq)

\* ComponentCache._get_cache_path
CachePath(key) == [key |-> key, ext |-> "json"]

\* the entry written in place, with no temporary file
TempPathInPlace(key) == CachePath(key)

\* temp_path of save: cache_path.with_suffix('.tmp')
TempPath(key) == [key |-> key, ext |-> "tmp"]

----------------------------------------------------------------------------
(* The cache file: what save serialises and what load parses.              *)
(* The text of a file is a sequence of chunks, the unit in which a         *)
(* buffered writer hands text to the file system: the first holds the      *)
(* version and the timestamp, the second the components and the edges.     *)

CompKeys == {"name", "package", "path", "source_files", "dependencies", "is_test", "metadata"}

\* an entry written with an empty 'dependencies' list
CompToJsonNoDeps(c) ==
    [name |-> c.name, package |-> c.package, path |-> c.path,
     source_files |-> c.source_files,
     dependencies |-> <<>>,
     is_test |-> c.is_test, metadata |-> c.metadata]

\* one entry of data['components']
CompToJson(c) ==
    [name |-> c.name, package |-> c.package, path |-> c.path,
     source_files |-> c.source_files,
     dependencies |-> SetToSeq(c.dependencies),
     is_test |-> c.is_test, metadata |-> c.metadata]

\* an entry written without its edge records
EdgeListNone(keys, i, gr) == <<>>

RECURSIVE EdgeList(_, _, _)
\* data['edges']: [from, to] for from in components for to in get_dependencies(from)
EdgeList(keys, i, gr) ==
    IF i > Len(keys) THEN <<>>
    ELSE LET tos == SetToSeq(get_dependencies(gr, keys[i]))
         IN  [j \in DOMAIN tos |-> [kind |-> "list", items |-> <<keys[i], tos[j]>>]]
             \o EdgeList(keys, i + 1, gr)

\* the dict save hands to json.dump
SaveData(components, gr, now) ==
    [version |-> "1.0",
     timestamp |-> now,
     components |-> [i \in DOMAIN components.keys |-> CompToJson(components.val[components.keys[i]])],
     edges |-> EdgeList(components.keys, 1, gr)]

\* the keys of obj among ks, as an object of their own
Project(obj, ks) == [k \in (DOMAIN obj) \cap ks |-> obj[k]]

\* json.dump(data, f): the text, chunk by chunk
JsonDump(obj) ==
    << [part |-> "head", obj |-> Project(obj, {"version", "timestamp"})],
       [part |-> "body", obj |-> Project(obj, {"components", "edges"})] >>

\* a run of NUL bytes where a writer seeked past the end of the file
Hole == [part |-> "nul"]
\* bytes that are no UTF-8 text
BadBytes == [part |-> "badutf8"]
\* the text of a JSON array
ListText == [part |-> "list"]

\* what is at the path is a directory
DirNode == [part |-> "dir"]

\* open(cache_path, 'r') and json.load(f): the value, or the exception
JsonLoad(text) ==
    IF text = <<DirNode>> THEN [err |-> "IsADirectoryError"]
    ELSE IF \E i \in DOMAIN text : text[i].part = "badutf8" THEN [err |-> "UnicodeDecodeError"]
    ELSE IF Len(text) = 1 /\ text[1].part = "list" THEN [err |-> "none", kind |-> "list"]
    ELSE IF Len(text) = 2 /\ text[1].part = "head" /\ text[2].part = "body"
         THEN [err |-> "none", kind |-> "object", obj |-> text[1].obj @@ text[2].obj]
    ELSE [err |-> "JSONDecodeError"]

\* st_size of a file with this text, counted in the unit max_size is counted
\* in: one for the head, one per component record
ChunkSize(c) == IF c.part = "body" /\ "components" \in DOMAIN c.obj THEN Len(c.obj.components) ELSE 1
RECURSIVE TextSize(_)
TextSize(text) == IF text = <<>> THEN 0 ELSE ChunkSize(Head(text)) + TextSize(Tail(text))

RECURSIVE LoadComponentsByPackage(_, _, _, _)
\* the components of the file keyed by their package
LoadComponentsByPackage(t, recs, i, comps) ==
    IF i > Len(recs) THEN [ok |-> TRUE, components |-> comps]
    ELSE LET r == recs[i]
         IN  IF ~(CompKeys \subseteq DOMAIN r) THEN [ok |-> FALSE]
             ELSE LET c == [name |-> r.name, package |-> r.package, path |-> r.path,
                            source_files |-> r.source_files,
                            dependencies |-> Range(r.dependencies),
                            is_test |-> r.is_test, metadata |-> r.metadata]
                  IN  IF ~ValidComponent(t, c) THEN [ok |-> FALSE]
                      ELSE LoadComponentsByPackage(t, recs, i + 1, DictSet(comps, r.package, c))

RECURSIVE LoadComponents(_, _, _, _)
\* "Reconstruct components": the dict, or ok = FALSE where load returns None
LoadComponents(t, recs, i, comps) ==
    IF i > Len(recs) THEN [ok |-> TRUE, components |-> comps]
    ELSE LET r == recs[i]
         IN  IF ~(CompKeys \subseteq DOMAIN r) THEN [ok |-> FALSE]
             ELSE LET c == [name |-> r.name, package |-> r.package, path |-> r.path,
                            source_files |-> r.source_files,
                            dependencies |-> Range(r.dependencies),
                            is_test |-> r.is_test, metadata |-> r.metadata]
                  IN  IF ~ValidComponent(t, c) THEN [ok |-> FALSE]
                      ELSE LoadComponents(t, recs, i + 1, DictSet(comps, r.name, c))

RECURSIVE LoadEdges(_, _, _)
\* "Reconstruct dependency graph": the graph, or ok = FALSE where load returns None.
\* "from_comp, to_comp = edge" unpacks whatever iterates over two items: a list,
\* a string of two characters, an object with two keys.
LoadEdges(edges, i, gr) ==
    IF i > Len(edges) THEN [ok |-> TRUE, graph |-> gr]
    ELSE LET e == edges[i]
         IN  IF e.kind = "number" \/ Len(e.items) # 2 THEN [ok |-> FALSE]
             ELSE LoadEdges(edges, i + 1,
                      add_edge(add_node(add_node(gr, e.items[1]), e.items[2]), e.items[1], e.items[2]))

Miss == [kind |-> "miss"]
Raised == [kind |-> "CacheError"]

\* ComponentCache.load on tree t with cache directory d over the files fs
load(t, d, fs) ==
    IF KeyFails(t) THEN Miss
    ELSE IF CachePath(CacheKey(t)) \notin DOMAIN d THEN Miss
    ELSE LET data == JsonLoad(fs[d[CachePath(CacheKey(t))]].text)
         IN  IF data.err = "JSONDecodeError" THEN Raised
             ELSE IF data.err # "none" THEN Miss
             ELSE IF data.kind # "object" THEN Miss
             ELSE IF "version" \notin DOMAIN data.obj \/ data.obj.version # "1.0" THEN Miss
             ELSE IF "components" \notin DOMAIN data.obj THEN Raised
             ELSE LET lc == LoadComponents(t, data.obj.components, 1, NewDict)
                  IN  IF ~lc.ok THEN Miss
                      ELSE IF "edges" \notin DOMAIN data.obj THEN Raised
                      ELSE LET le == LoadEdges(data.obj.edges, 1, NewGraph)
                           IN  IF ~le.ok THEN Miss
                               ELSE [kind |-> "hit", components |-> lc.components, graph |-> le.graph]

----------------------------------------------------------------------------
(* ComponentCache: eviction *)

\* the files components_*.json of the cache directory
EntryPaths(d) == { q \in DOMAIN d : q.ext = "json" }

\* total size of the entry files
TotalSize(d, fs) ==
    LET paths == SetToSeq(EntryPaths(d))
        sizes == [i \in DOMAIN paths |-> TextSize(fs[d[paths[i]]].text)]
        Sum[i \in 0..Len(sizes)] == IF i = 0 THEN 0 ELSE sizes[i] + Sum[i - 1]
    IN  Sum[Len(sizes)]

\* the files sorted newest first
SortedNewestFirst(d, fs) ==
    { s \in Perms(EntryPaths(d)) :
        \A i, j \in DOMAIN s : i < j => fs[d[s[i]]].mtime >= fs[d[s[j]]].mtime }

\* cache_files.sort(key=mtime): the orders a stable sort of some glob order gives
SortedByMtime(d, fs) ==
    { s \in Perms(EntryPaths(d)) :
        \A i, j \in DOMAIN s : i < j => fs[d[s[i]]].mtime <= fs[d[s[j]]].mtime }

RECURSIVE EvictLoop(_, _, _, _, _, _)
\* "Remove old files until under limit": the paths unlinked
EvictLoop(d, fs, sorted, i, total, max) ==
    IF i > Len(sorted) \/ total <= max THEN {}
    ELSE {sorted[i]} \cup EvictLoop(d, fs, sorted, i + 1, total - TextSize(fs[d[sorted[i]]].text), max)

\* ComponentCache._cleanup_old_cache: the paths it unlinks
cleanup_old_cache(d, fs, sorted, max) ==
    IF TotalSize(d, fs) > max
    THEN EvictLoop(d, fs, sorted, 1, TotalSize(d, fs), max)
    ELSE {}

\* a directory without the paths in gone
Unlink(d, gone) == [q \in (DOMAIN d) \ gone |-> d[q]]

\* the files still reachable: by a directory entry or by an open descriptor
Reap(fs, d, fds) == [i \in { j \in DOMAIN fs : j \in Range(d) \cup fds } |-> fs[i]]

\* the number of a file created next
FreshFile(fs) == CHOOSE i \in 1..(Cardinality(DOMAIN fs) + 1) : i \notin DOMAIN fs

----------------------------------------------------------------------------
(* The processes that call the cache, and the state they share *)

\* two discovery runs and a reader
Procs == {1, 2, 3}
Savers == {1, 2}
Reader == CHOOSE p \in Procs : p \notin Savers

\* the files the callers of the cache see edited between their calls
EditedFiles == {"f1", "f2"}

\* the trees a run can start from: f3 and f4 are absent, the others absent or
\* last modified at time 1
StartTrees == { t \in [Files -> 0..1] : \A f \in Files \ EditedFiles : t[f] = 0 }

\* what discover_components hands to save for tree t: the scan of both roots
\* with the dependency edges added
ScanAll(t) ==
    ScanRoot(t, "test", ScanRoot(t, "main",
        [components |-> NewDict, graph |-> NewGraph, messages |-> <<>>]))
Discovered(t) ==
    [components |-> ScanAll(t).components,
     graph |-> ResolveEdges(ScanAll(t).components, ScanAll(t).graph)]

NoLocals == [components |-> NewDict, graph |-> NewGraph, key |-> <<>>, forTree |-> <<>>,
             text |-> <<>>, fd |-> 0, off |-> 0]

\* the files some process holds open
OpenFiles(l) == { l[p].fd : p \in Procs } \ {0}

NoSave == [valid |-> FALSE, changes |-> 0]

\* the state before any call: an empty cache directory
IdleCache ==
    /\ tree = [f \in Files |-> 0]
    /\ clock = 1
    /\ max_size = 0
    /\ dir = <<>>
    /\ ino = <<>>
    /\ pc = [p \in Procs |-> "idle"]
    /\ loc = [p \in Procs |-> NoLocals]
    /\ last = [op |-> "none"]
    /\ fresh = NoSave
    /\ origin = <<>>

\* ComponentCache.save is entered with the result of a discovery of the tree
CallSave(p) ==
    /\ pc[p] = "idle"
    /\ clock < MaxClock
    /\ pc' = [pc EXCEPT ![p] = "cleanup"]
    /\ loc' = [loc EXCEPT ![p] = [NoLocals EXCEPT !.components = Discovered(tree).components,
                                                  !.graph = Discovered(tree).graph]]
    /\ fresh' = NoSave
    /\ UNCHANGED <<tree, clock, max_size, dir, ino, last, origin, graphVars>>

\* save: self._cleanup_old_cache()
SaveCleanup(p) ==
    /\ pc[p] = "cleanup"
    /\ \E sorted \in SortedByMtime(dir, ino) :
         LET gone == cleanup_old_cache(dir, ino, sorted, max_size)
         IN  /\ dir' = Unlink(dir, gone)
             /\ ino' = Reap(ino, dir', OpenFiles(loc))
             /\ origin' = [q \in (DOMAIN origin) \ gone |-> origin[q]]
             /\ last' = [op |-> "cleanup", gone |-> gone, sorted |-> sorted,
                          size |-> [q \in EntryPaths(dir) |-> TextSize(ino[dir[q]].text)],
                          mtime |-> [q \in EntryPaths(dir) |-> ino[dir[q]].mtime]]
    /\ pc' = [pc EXCEPT ![p] = "key"]
    /\ UNCHANGED <<tree, clock, max_size, loc, fresh, graphVars>>

\* save: the cache key of the tree as it is now, and the data, stamped now
SaveKey(p) ==
    /\ pc[p] = "key"
    /\ clock' = clock + 1
    /\ loc' = [loc EXCEPT ![p].key = CacheKey(tree),
                          ![p].forTree = tree,
                          ![p].text = JsonDump(SaveData(loc[p].components, loc[p].graph, clock'))]
    /\ pc' = [pc EXCEPT ![p] = "open"]
    /\ UNCHANGED <<tree, max_size, dir, ino, last, fresh, origin, graphVars>>

\* save: open(temp_path, 'w') creates the file or truncates the one that is there
SaveOpen(p) ==
    /\ pc[p] = "open"
    /\ LET tmp == TempPath(loc[p].key)
           i == IF tmp \in DOMAIN dir THEN dir[tmp] ELSE FreshFile(ino)
       IN  /\ dir' = SetItem(dir, tmp, i)
           /\ ino' = SetItem(ino, i, [text |-> <<>>, mtime |-> clock])
           /\ loc' = [loc EXCEPT ![p].fd = i, ![p].off = 0]
    /\ pc' = [pc EXCEPT ![p] = "write"]
    /\ UNCHANGED <<tree, clock, max_size, last, fresh, origin, graphVars>>

\* the text of a file after chunk c is written at position k
WriteAt(text, k, c) ==
    [j \in 1..(IF Len(text) > k THEN Len(text) ELSE k) |->
        IF j = k THEN c ELSE IF j <= Len(text) THEN text[j] ELSE Hole]

\* save: json.dump hands the next chunk of text to the file; the file is closed
\* after the last one
SaveWrite(p) ==
    /\ pc[p] = "write"
    /\ LET k == loc[p].off + 1
           final == (k = Len(loc[p].text))
           written == SetItem(ino, loc[p].fd,
                          [text |-> WriteAt(ino[loc[p].fd].text, k, loc[p].text[k]), mtime |-> clock])
       IN  /\ loc' = [loc EXCEPT ![p].off = k, ![p].fd = IF final THEN 0 ELSE @]
           /\ ino' = Reap(written, dir, OpenFiles(loc'))
           /\ pc' = [pc EXCEPT ![p] = IF final THEN "rename" ELSE "write"]
    /\ UNCHANGED <<tree, clock, max_size, dir, last, fresh, origin, graphVars>>

\* save: temp_path.replace(cache_path); a temp_path that is gone raises, and
\* save re-raises as CacheError
SaveRename(p) ==
    /\ pc[p] = "rename"
    /\ loc' = [loc EXCEPT ![p] = NoLocals]
    /\ pc' = [pc EXCEPT ![p] = "idle"]
    /\ LET tmp == TempPath(loc[p].key)
           dst == CachePath(loc[p].key)
       IN  IF tmp \in DOMAIN dir
           THEN /\ dir' = Unlink(SetItem(dir, dst, dir[tmp]), {tmp})
                /\ ino' = Reap(ino, dir', OpenFiles(loc'))
                /\ origin' = SetItem(origin, dst, loc[p].forTree)
                /\ last' = [op |-> "save", ok |-> TRUE]
                /\ fresh' = [valid |-> TRUE, changes |-> 0, key |-> loc[p].key,
                              tree |-> loc[p].forTree,
                              components |-> loc[p].components, graph |-> loc[p].graph]
           ELSE /\ UNCHANGED <<dir, ino, origin>>
                /\ last' = [op |-> "save", ok |-> FALSE]
                /\ fresh' = NoSave
    /\ UNCHANGED <<tree, clock, max_size, graphVars>>

InSave(p) == pc[p] \in {"cleanup", "key", "open", "write", "rename"}

\* the process dies inside save: its descriptor is closed, nothing is undone
Crash(p) ==
    /\ InSave(p)
    /\ loc' = [loc EXCEPT ![p] = NoLocals]
    /\ pc' = [pc EXCEPT ![p] = "idle"]
    /\ ino' = Reap(ino, dir, OpenFiles(loc'))
    /\ last' = [op |-> "crash", at |-> pc[p], key |-> loc[p].key]
    /\ UNCHANGED <<tree, clock, max_size, dir, fresh, origin, graphVars>>

\* ComponentCache.load, start to end
LoadCall(p) ==
    /\ pc[p] = "idle"
    /\ last' = [op |-> "load", res |-> load(tree, dir, ino), tree |-> tree,
                 text |-> IF CachePath(CacheKey(tree)) \in DOMAIN dir
                          THEN ino[dir[CachePath(CacheKey(tree))]].text ELSE <<>>,
                 from |-> IF CachePath(CacheKey(tree)) \in DOMAIN origin
                          THEN <<origin[CachePath(CacheKey(tree))]>> ELSE <<>>,
                 fresh |-> fresh,
                 exists |-> CachePath(CacheKey(tree)) \in DOMAIN dir,
                 after |-> IF last.op = "load" THEN last.after ELSE last]
    /\ UNCHANGED <<tree, clock, max_size, dir, ino, pc, loc, fresh, origin, graphVars>>

\* One edit of the source tree: a file is removed (m = 0), or it is added or
\* modified and gets the current time as its mtime; an edit within the clock
\* tick of the file's mtime goes unseen and is no change.
TreeChange(f, m) ==
    /\ m \in {0, clock}
    /\ m # tree[f]
    /\ tree' = [tree EXCEPT ![f] = m]
    /\ last' = [op |-> "change", file |-> f]
    /\ fresh' = [fresh EXCEPT !.changes = IF @ < 2 THEN @ + 1 ELSE @]
    /\ UNCHANGED <<clock, max_size, dir, ino, pc, loc, origin, graphVars>>

----------------------------------------------------------------------------
(* One caller at a time: the cache used as the single-threaded subsystem    *)
(* it is, by save and load calls with source edits between the calls; a    *)
(* call may die inside save, and the next call is made by a new process.   *)

AllIdle == \A p \in Procs : pc[p] = "idle"

InitCache ==
    /\ g = NewGraph
    /\ hcRes = "none"
    /\ tree \in StartTrees
    /\ clock = 1
    /\ max_size \in 0..MaxBudget
    /\ dir = <<>>
    /\ ino = <<>>
    /\ pc = [p \in Procs |-> "idle"]
    /\ loc = [p \in Procs |-> NoLocals]
    /\ last = [op |-> "none"]
    /\ fresh = NoSave
    /\ origin = <<>>

NextCache ==
    \/ AllIdle /\ CallSave(1)
    \/ SaveCleanup(1)
    \/ SaveKey(1)
    \/ SaveOpen(1)
    \/ SaveWrite(1)
    \/ SaveRename(1)
    \/ Crash(1)
    \/ AllIdle /\ LoadCall(1)
    \/ AllIdle /\ \E f \in EditedFiles : \E m \in 0..MaxClock : TreeChange(f, m)

SpecCache == InitCache /\ [][NextCache]_vars

----------------------------------------------------------------------------
(* The DependencyGraph driven through its public methods *)

InitGraph ==
    /\ g = NewGraph
    /\ hcRes = "none"
    /\ IdleCache

EdgeCalls(gr) == Cardinality(Edges(gr))

\* The graph treats names as opaque keys, so a call that brings in a name not yet
\* used takes the next one of GNodeSeq: every graph shape is still built, once.
NamesFor(used) ==
    used \cup { GNodeSeq[i] : i \in { j \in DOMAIN GNodeSeq :
                    /\ GNodeSeq[j] \notin used
                    /\ \A k \in 1..(j - 1) : GNodeSeq[k] \in used } }

AddNode(c) ==
    /\ g' = add_node(g, c)
    /\ g' # g
    /\ hcRes' = "none"
    /\ UNCHANGED cacheVars

AddEdge(a, b) ==
    /\ EdgeCalls(g) < MaxEdgeCalls
    /\ g' = add_edge(g, a, b)
    /\ g' # g
    /\ hcRes' = "none"
    /\ UNCHANGED cacheVars

HasCycles ==
    /\ \E ord \in SetOrders(g) :
         LET r == has_cycles(g, ord)
         IN  /\ hcRes' = r.res
             /\ g' = AfterHasCycles(g, r.keys)
    /\ UNCHANGED cacheVars

NextGraph ==
    \/ \E c \in NamesFor(GraphNames(g)) : AddNode(c)
    \/ \E a \in NamesFor(GraphNames(g)) : \E b \in NamesFor(GraphNames(g) \cup {a}) : AddEdge(a, b)
    \/ HasCycles

SpecGraph == InitGraph /\ [][NextGraph]_vars

----------------------------------------------------------------------------
(* Eviction on its own: _cleanup_old_cache, as save calls it, run on cache  *)
(* directories that earlier runs for other roots left behind.               *)

\* the names of entry files left by earlier runs, and what such a file holds:
\* the entry of some tree, last modified at one of two times
PriorKeys == << <<"/r1">>, <<"/r2">>, <<"/r3">> >>
PriorTexts == { JsonDump(SaveData(Discovered(t).components, Discovered(t).graph, 1)) : t \in StartTrees }
PriorFiles == { [text |-> x, mtime |-> m] : x \in PriorTexts, m \in 0..1 }

InitEvict ==
    /\ g = NewGraph
    /\ hcRes = "none"
    /\ tree = [f \in Files |-> IF f = "f1" THEN 1 ELSE 0]
    /\ clock = 1
    /\ max_size \in 0..MaxEvictBudget
    /\ \E present \in SUBSET (DOMAIN PriorKeys) :
         \E files \in [present -> PriorFiles] :
            /\ dir = [q \in { CachePath(PriorKeys[i]) : i \in present } |->
                         CHOOSE i \in present : q = CachePath(PriorKeys[i])]
            /\ ino = files
    /\ pc = [p \in Procs |-> "idle"]
    /\ loc = [p \in Procs |-> NoLocals]
    /\ last = [op |-> "none"]
    /\ fresh = NoSave
    /\ origin = <<>>

NextEvict ==
    \/ AllIdle /\ CallSave(1)
    \/ SaveCleanup(1)

SpecEvict == InitEvict /\ [][NextEvict]_vars

----------------------------------------------------------------------------
(* load on its own: the entry of the current tree, as save wrote it, is     *)
(* damaged on disk between the calls, one defect at a time, and loaded.     *)

Defects ==
    {"badutf8", "truncated", "not_object", "isdir",
     "no_version", "old_version", "no_components", "no_edges",
     "comp_no_name", "comp_empty_name", "comp_bad_path",
     "edge_short", "edge_long", "edge_number", "edge_string", "edge_object"}

Without(obj, k) == [j \in (DOMAIN obj) \ {k} |-> obj[j]]

\* the object of a text that parses to one, with defect x
DamagedObj(obj, x) ==
    LET hasComp == "components" \in DOMAIN obj /\ obj.components # <<>>
        hasEdge == "edges" \in DOMAIN obj /\ obj.edges # <<>>
    IN  CASE x = "no_version" -> Without(obj, "version")
          [] x = "old_version" /\ "version" \in DOMAIN obj -> [obj EXCEPT !.version = "0.9"]
          [] x = "no_components" -> Without(obj, "components")
          [] x = "no_edges" -> Without(obj, "edges")
          [] x = "comp_no_name" /\ hasComp ->
                [obj EXCEPT !.components[1] = Without(@, "name")]
          [] x = "comp_empty_name" /\ hasComp /\ "name" \in DOMAIN obj.components[1] ->
                [obj EXCEPT !.components[1].name = <<>>]
          [] x = "comp_bad_path" /\ hasComp ->
                [obj EXCEPT !.components[1].path = "/nonexistent"]
          [] x = "edge_short" /\ hasEdge ->
                [obj EXCEPT !.edges[1] = [kind |-> "list", items |-> << <<"b">> >>]]
          [] x = "edge_long" /\ hasEdge ->
                [obj EXCEPT !.edges[1] = [kind |-> "list", items |-> << <<"b">>, <<"b", "c">>, <<"b">> >>]]
          [] x = "edge_number" /\ hasEdge ->
                [obj EXCEPT !.edges[1] = [kind |-> "number", items |-> <<>>]]
          [] x = "edge_string" /\ hasEdge ->
                [obj EXCEPT !.edges[1] = [kind |-> "string", items |-> << <<"a">>, <<"b">> >>]]
          [] x = "edge_object" /\ hasEdge ->
                [obj EXCEPT !.edges[1] = [kind |-> "object",
                                           items |-> << <<"f", "r", "o", "m">>, <<"t", "o">> >>]]
          [] OTHER -> obj

\* the text of the file with defect x
Damaged(text, x) ==
    CASE x = "isdir" -> <<DirNode>>
      [] x = "not_object" /\ text # <<DirNode>> -> <<ListText>>
      [] x = "badutf8" /\ text # <<DirNode>> /\ text # <<>> -> [text EXCEPT ![1] = BadBytes]
      [] x = "truncated" /\ text # <<DirNode>> /\ text # <<>> -> SubSeq(text, 1, Len(text) - 1)
      [] OTHER ->
            IF JsonLoad(text).err = "none" /\ JsonLoad(text).kind = "object"
            THEN JsonDump(DamagedObj(JsonLoad(text).obj, x))
            ELSE text

\* something outside the program changes the entry file of the current tree
Damage(x) ==
    /\ AllIdle
    /\ CachePath(CacheKey(tree)) \in DOMAIN dir
    /\ LET i == dir[CachePath(CacheKey(tree))]
       IN  /\ Damaged(ino[i].text, x) # ino[i].text
           /\ ino' = [ino EXCEPT ![i].text = Damaged(ino[i].text, x)]
    /\ last' = [op |-> "damage", defect |-> x]
    /\ UNCHANGED <<tree, clock, max_size, dir, pc, loc, fresh, origin, graphVars>>

InitLoad ==
    /\ g = NewGraph
    /\ hcRes = "none"
    /\ tree \in { t \in StartTrees : t["f1"] = 1 }
    /\ clock = 1
    /\ max_size = MaxBudget
    /\ \/ dir = <<>> /\ ino = <<>> /\ origin = <<>>
       \/ /\ dir = [q \in {CachePath(CacheKey(tree))} |-> 1]
          /\ ino = [i \in {1} |->
                      [text |-> JsonDump(SaveData(Discovered(tree).components, Discovered(tree).graph, 1)),
                       mtime |-> 1]]
          /\ origin = [q \in {CachePath(CacheKey(tree))} |-> tree]
    /\ pc = [p \in Procs |-> "idle"]
    /\ loc = [p \in Procs |-> NoLocals]
    /\ last = [op |-> "none"]
    /\ fresh = NoSave

NextLoad ==
    \/ \E x \in Defects : Damage(x)
    \/ AllIdle /\ LoadCall(1)

SpecLoad == InitLoad /\ [][NextLoad]_vars

----------------------------------------------------------------------------
(* Two discovery runs save for the same root and the same tree with no lock *)
(* between them, their steps interleaved in every way, while a reader       *)
(* loads at any point.                                                      *)

InitConc ==
    /\ g = NewGraph
    /\ hcRes = "none"
    /\ tree \in { t \in StartTrees : t["f1"] = 1 }
    /\ clock = 1
    /\ max_size \in 0..MaxBudget
    /\ \/ dir = <<>> /\ ino = <<>> /\ origin = <<>>
       \/ /\ dir = [q \in {CachePath(CacheKey(tree))} |-> 1]
          /\ ino = [i \in {1} |->
                      [text |-> JsonDump(SaveData(Discovered(tree).components, Discovered(tree).graph, 1)),
                       mtime |-> 1]]
          /\ origin = [q \in {CachePath(CacheKey(tree))} |-> tree]
    /\ pc = [p \in Procs |-> "idle"]
    /\ loc = [p \in Procs |-> NoLocals]
    /\ last = [op |-> "none"]
    /\ fresh = NoSave

NextConc ==
    \/ \E p \in Savers : CallSave(p)
    \/ \E p \in Savers : SaveCleanup(p)
    \/ \E p \in Savers : SaveKey(p)
    \/ \E p \in Savers : SaveOpen(p)
    \/ \E p \in Savers : SaveWrite(p)
    \/ \E p \in Savers : SaveRename(p)
    \/ LoadCall(Reader)

SpecConc == InitConc /\ [][NextConc]_vars

----------------------------------------------------------------------------
(* discover_components, call after call, with source edits between the      *)
(* calls; the cache directory holds what the earlier calls saved.           *)

\* ComponentCache.save, start to end: the directory and the files after it
save(d, fs, sorted, max, t, components, gr, now) ==
    LET d1 == Unlink(d, cleanup_old_cache(d, fs, sorted, max))
        fs1 == Reap(fs, d1, {})
        tmp == TempPath(CacheKey(t))
        i == IF tmp \in DOMAIN d1 THEN d1[tmp] ELSE FreshFile(fs1)
        d2 == Unlink(SetItem(d1, CachePath(CacheKey(t)), i), {tmp})
    IN  [dir |-> d2,
         ino |-> Reap(SetItem(fs1, i, [text |-> JsonDump(SaveData(components, gr, now)),
                                       mtime |-> now]), d2, {})]

\* history: what the event before a call was, and what a call before it returned
Brief(l) ==
    IF l.op = "discover" /\ l.outcome = "returned"
    THEN [op |-> "discover", outcome |-> "returned", via |-> l.via,
          components |-> l.components, graph |-> l.graph]
    ELSE IF l.op = "discover" THEN [op |-> "discover", outcome |-> l.outcome]
    ELSE [op |-> l.op]

\* discover_components, start to end: a hit returns what load gave, a CacheError
\* leaves as ComponentDiscoveryError, a miss scans, links, checks for cycles,
\* saves and returns
DiscoverComponents ==
    /\ AllIdle
    /\ LET cached == load(tree, dir, ino)
       IN  IF cached.kind = "hit"
           THEN /\ last' = [op |-> "discover", outcome |-> "returned", via |-> "cache",
                             components |-> cached.components, graph |-> cached.graph,
                             prev |-> Brief(last)]
                /\ UNCHANGED <<clock, dir, ino, origin>>
           ELSE IF cached.kind = "CacheError"
           THEN /\ last' = [op |-> "discover", outcome |-> "raised", prev |-> Brief(last)]
                /\ UNCHANGED <<clock, dir, ino, origin>>
           ELSE /\ clock < MaxClock
                /\ clock' = clock + 1
                /\ \E ord \in SetOrders(Discovered(tree).graph) :
                   \E sorted \in SortedByMtime(dir, ino) :
                      LET hc == has_cycles(Discovered(tree).graph, ord)
                          gr == AfterHasCycles(Discovered(tree).graph, hc.keys)
                          sv == save(dir, ino, sorted, max_size, tree,
                                     Discovered(tree).components, gr, clock')
                      IN  IF hc.res = "RuntimeError"
                          THEN /\ last' = [op |-> "discover", outcome |-> "raised", prev |-> Brief(last)]
                               /\ UNCHANGED <<dir, ino, origin>>
                          ELSE /\ dir' = sv.dir
                               /\ ino' = sv.ino
                               /\ origin' = [q \in DOMAIN dir' |->
                                                IF q = CachePath(CacheKey(tree)) THEN tree ELSE origin[q]]
                               /\ last' = [op |-> "discover", outcome |-> "returned", via |-> "scan",
                                            cycles |-> hc.res,
                                            components |-> Discovered(tree).components, graph |-> gr,
                                            prev |-> Brief(last)]
    /\ fresh' = NoSave
    /\ UNCHANGED <<tree, max_size, pc, loc, graphVars>>

InitDiscover ==
    /\ g = NewGraph
    /\ hcRes = "none"
    /\ tree \in { t \in [Files -> 0..1] : t["f4"] = 0 }
    /\ clock = 1
    /\ max_size \in 0..MaxBudget
    /\ dir = <<>>
    /\ ino = <<>>
    /\ pc = [p \in Procs |-> "idle"]
    /\ loc = [p \in Procs |-> NoLocals]
    /\ last = [op |-> "none"]
    /\ fresh = NoSave
    /\ origin = <<>>

NextDiscover ==
    \/ DiscoverComponents
    \/ \E f \in Files \ {"f4"} : \E m \in 0..MaxClock : TreeChange(f, m)

SpecDiscover == InitDiscover /\ [][NextDiscover]_vars

----------------------------------------------------------------------------
(* discover_components statement by statement: the cache lookup, the two    *)
(* scans, edge resolution, the cycle check, the save and the return, each   *)
(* of which may raise; between the calls the entry of the tree may be       *)
(* damaged on disk.                                                         *)

\* what a statement of the miss path may raise
Exceptions == {"OSError", "RuntimeError", "CacheError"}

\* a handler that lets everything but a CacheError through as it is
WrapCacheErrorOnly(x) ==
    IF x = "CacheError" THEN [type |-> "ComponentDiscoveryError", cause |-> x]
    ELSE [type |-> x, cause |-> x]

\* except Exception as e: raise ComponentDiscoveryError(str(e)) from e
Wrap(x) == [type |-> "ComponentDiscoveryError", cause |-> x]

\* the miss path with the cache written before the edges are resolved
StageAfterSaveEarly(stage) ==
    CASE stage = "load" -> "scan_main"
      [] stage = "scan_main" -> "scan_test"
      [] stage = "scan_test" -> "save"
      [] stage = "save" -> "resolve"
      [] stage = "resolve" -> "cycles"
      [] OTHER -> "return"

\* the statements of discover_components in program order
StageAfter(stage) ==
    CASE stage = "load" -> "scan_main"
      [] stage = "scan_main" -> "scan_test"
      [] stage = "scan_test" -> "resolve"
      [] stage = "resolve" -> "cycles"
      [] stage = "cycles" -> "save"
      [] OTHER -> "return"

\* the locals of a call of discover_components, with the history of the call:
\* the statements run, the arguments of every save, the cache directory at entry
RunLocals ==
    [messages |-> <<"Starting component discovery...">>,
     steps |-> <<>>, saved |-> <<>>, dir0 |-> dir, ino0 |-> ino] @@ NoLocals

\* the statement at stage is done
Step(l, stage) == [l EXCEPT !.steps = Append(@, stage)]

\* discover_components is entered
RunCall ==
    /\ AllIdle
    /\ pc' = [pc EXCEPT ![1] = "load"]
    /\ loc' = [loc EXCEPT ![1] = RunLocals]
    /\ last' = [op |-> "call"]
    /\ UNCHANGED <<tree, clock, max_size, dir, ino, fresh, origin, graphVars>>

\* the call ends by raising exception x at stage
Raise(x, stage) ==
    /\ last' = [op |-> "discover", outcome |-> "raised", exc |-> Wrap(x), stage |-> stage,
                 steps |-> loc[1].steps, saved |-> loc[1].saved,
                 dir0 |-> loc[1].dir0, ino0 |-> loc[1].ino0]
    /\ pc' = [pc EXCEPT ![1] = "idle"]
    /\ loc' = [loc EXCEPT ![1] = NoLocals]

\* the call ends by returning
Return(via, l, msg) ==
    /\ last' = [op |-> "discover", outcome |-> "returned", via |-> via,
                 components |-> l.components, graph |-> l.graph,
                 messages |-> Append(l.messages, msg), discovered |-> Len(l.components.keys),
                 steps |-> l.steps, saved |-> l.saved, dir0 |-> l.dir0, ino0 |-> l.ino0]
    /\ pc' = [pc EXCEPT ![1] = "idle"]
    /\ loc' = [loc EXCEPT ![1] = NoLocals]

\* a lookup whose result is never taken
TruthyNever(cached) == FALSE

\* "if cached:" for what load returned: the tuple is truthy, None is not
Truthy(cached) == cached.kind = "hit"

\* cached = cache.load(repo_path); if cached: return
RunLoad ==
    /\ pc[1] = "load"
    /\ LET cached == load(tree, dir, ino)
       IN  IF Truthy(cached)
           THEN Return("cache", [Step(loc[1], "load") EXCEPT !.components = cached.components,
                                                             !.graph = cached.graph],
                       "Loaded component graph from cache")
           ELSE IF cached.kind = "CacheError"
           THEN Raise("CacheError", "load")
           ELSE /\ pc' = [pc EXCEPT ![1] = StageAfter("load")]
                /\ loc' = [loc EXCEPT ![1] = Step(@, "load")]
                /\ UNCHANGED last
    /\ UNCHANGED <<tree, clock, max_size, dir, ino, fresh, origin, graphVars>>

\* one round of "for src_type in ['main', 'test']"
RunScan(src_type) ==
    /\ pc[1] = IF src_type = "main" THEN "scan_main" ELSE "scan_test"
    /\ LET st == ScanRoot(tree, src_type, [components |-> loc[1].components,
                                            graph |-> loc[1].graph,
                                            messages |-> loc[1].messages])
       IN  loc' = [loc EXCEPT ![1] = [Step(@, pc[1]) EXCEPT !.components = st.components,
                                                            !.graph = st.graph,
                                                            !.messages = st.messages]]
    /\ pc' = [pc EXCEPT ![1] = StageAfter(pc[1])]
    /\ UNCHANGED <<tree, clock, max_size, dir, ino, last, fresh, origin, graphVars>>

\* "Add dependency edges"
RunResolve ==
    /\ pc[1] = "resolve"
    /\ loc' = [loc EXCEPT ![1] = [Step(@, "resolve") EXCEPT
                                     !.graph = ResolveEdges(loc[1].components, loc[1].graph)]]
    /\ pc' = [pc EXCEPT ![1] = StageAfter("resolve")]
    /\ UNCHANGED <<tree, clock, max_size, dir, ino, last, fresh, origin, graphVars>>

\* if graph.has_cycles(): messages.append("Warning: ...")
RunCycles ==
    /\ pc[1] = "cycles"
    /\ \E ord \in SetOrders(loc[1].graph) :
         LET hc == has_cycles(loc[1].graph, ord)
         IN  IF hc.res = "RuntimeError"
             THEN Raise("RuntimeError", "cycles")
             ELSE /\ loc' = [loc EXCEPT ![1] = [Step(@, "cycles") EXCEPT
                                !.graph = AfterHasCycles(loc[1].graph, hc.keys),
                                !.messages = IF hc.res = "true"
                                             THEN Append(@, "Warning: Circular dependencies detected")
                                             ELSE @]]
                  /\ pc' = [pc EXCEPT ![1] = StageAfter("cycles")]
                  /\ UNCHANGED last
    /\ UNCHANGED <<tree, clock, max_size, dir, ino, fresh, origin, graphVars>>

\* cache.save(repo_path, components, graph); when the key cannot be computed save
\* has evicted already and raises CacheError
RunSave ==
    /\ pc[1] = "save"
    /\ clock < MaxClock
    /\ clock' = clock + 1
    /\ \E sorted \in SortedByMtime(dir, ino) :
         IF KeyFails(tree)
         THEN /\ dir' = Unlink(dir, cleanup_old_cache(dir, ino, sorted, max_size))
              /\ ino' = Reap(ino, dir', {})
              /\ origin' = [q \in DOMAIN dir' |-> origin[q]]
              /\ Raise("CacheError", "save")
         ELSE LET sv == save(dir, ino, sorted, max_size, tree, loc[1].components, loc[1].graph, clock')
              IN  /\ dir' = sv.dir
                  /\ ino' = sv.ino
                  /\ origin' = [q \in DOMAIN dir' |->
                                   IF q = CachePath(CacheKey(tree)) THEN tree ELSE origin[q]]
                  /\ loc' = [loc EXCEPT ![1] = [Step(@, "save") EXCEPT
                                !.saved = Append(@, [components |-> loc[1].components,
                                                     graph |-> loc[1].graph])]]
                  /\ pc' = [pc EXCEPT ![1] = StageAfter("save")]
                  /\ UNCHANGED last
    /\ UNCHANGED <<tree, max_size, fresh, graphVars>>

\* messages.append(f"Discovered {len(components)} components"); return
RunReturn ==
    /\ pc[1] = "return"
    /\ Return("scan", loc[1], "Discovered N components")
    /\ UNCHANGED <<tree, clock, max_size, dir, ino, fresh, origin, graphVars>>

\* a statement of the miss path raises x instead of completing
RunFail(x) ==
    /\ pc[1] \in {"scan_main", "scan_test", "resolve", "cycles", "save"}
    /\ Raise(x, pc[1])
    /\ UNCHANGED <<tree, clock, max_size, dir, ino, fresh, origin, graphVars>>

\* the defects an entry gets between the runs
RunDefects == {"truncated", "old_version", "no_edges", "comp_no_name", "comp_bad_path",
               "edge_short", "edge_number", "edge_object"}

InitRun ==
    /\ g = NewGraph
    /\ hcRes = "none"
    /\ tree \in [Files -> 0..1]
    /\ clock = 1
    /\ max_size \in {0, MaxBudget}
    /\ dir = <<>>
    /\ ino = <<>>
    /\ pc = [p \in Procs |-> "idle"]
    /\ loc = [p \in Procs |-> NoLocals]
    /\ last = [op |-> "none"]
    /\ fresh = NoSave
    /\ origin = <<>>

NextRun ==
    \/ RunCall
    \/ RunLoad
    \/ RunScan("main")
    \/ RunScan("test")
    \/ RunResolve
    \/ RunCycles
    \/ RunSave
    \/ RunReturn
    \/ \E x \in Exceptions : RunFail(x)
    \/ \E x \in RunDefects : Damage(x)

SpecRun == InitRun /\ [][NextRun]_vars

----------------------------------------------------------------------------
(* The analysis workflow (src/src/workflow.py): the stage graph that       *)
(* create_analysis_workflow builds and one invocation of it.  The graph    *)
(* library is not part of the repository: whether it rejects a graph with  *)
(* an edge to a node that was never added is left open (strict), and a     *)
(* graph it accepts is run from the entry point along the edges, a node    *)
(* without an outgoing edge ending the run.                                *)

\* the task list of create_analysis_workflow, in list order
tasks == <<"structure_analysis", "component_discovery", "integration_analysis",
           "quality_assessment">>

\* the nodes the workflow.add_node calls give the graph
WorkflowNodes == {"index"} \cup Range(tasks)

\* the edges the workflow.add_edge calls give the graph
WorkflowEdges ==
    { <<tasks[i], tasks[i + 1]>> : i \in 1..(Len(tasks) - 1) }
        \cup { <<tasks[Len(tasks)], "save">>, <<"save", "END">> }

\* workflow.set_entry_point
EntryPoint == "index"

\* workflow.compile(): a strict library refuses an edge whose end is no node
Compile(strict) ==
    IF strict /\ \E e \in WorkflowEdges : \E i \in 1..2 : e[i] \notin WorkflowNodes \cup {"END"}
    THEN "ValueError" ELSE "compiled"

\* the node run after node, END when no edge leaves it
Successor(node) ==
    IF \E e \in WorkflowEdges : e[1] = node
    THEN (CHOOSE e \in WorkflowEdges : e[1] = node)[2]
    ELSE "END"

\* repository URLs as urlparse splits them
Urls == [scheme : {"", "https"}, netloc : {"", "github.com"}, path : {"", "/o/r", "/o/r.git"}]

\* what a run finds around it: the remote repository can be cloned, ChromaDB
\* and the embedding service answer, the language model answers, and the
\* graph library validates edges
Envs == [remote : BOOLEAN, db : BOOLEAN, llm : BOOLEAN, strict : BOOLEAN]

\* RepoIndexer.validate_repo_url
validate_repo_url(url) ==
    IF url.scheme = "" \/ url.netloc = "" THEN "InvalidRepositoryError"
    ELSE IF url.path # "/o/r.git" THEN "InvalidRepositoryError"
    ELSE "ok"

\* RepoIndexer.clone_repo
clone_repo(url, env) ==
    IF validate_repo_url(url) # "ok" THEN "InvalidRepositoryError"
    ELSE IF ~env.remote THEN "InvalidRepositoryError"
    ELSE "ok"

\* the state analyze_repository hands to workflow.invoke; a key a stage has
\* not set yet is "absent"
InitialState(url) ==
    [messages |-> <<>>, report |-> "", db |-> "None", repo_url |-> url,
     error |-> "absent", repo_path |-> "absent", structure_analysis |-> "absent",
     components |-> "absent"]

Ok(state) == [raised |-> "none", state |-> state]
Raises(x, state) == [raised |-> x, state |-> state]

\* the index node: RepoIndexer(), index_repo, the vector store
index_repository(state, env) ==
    IF ~env.db THEN Raises("DatabaseError", state)
    ELSE IF clone_repo(state.repo_url, env) # "ok" THEN Raises("InvalidRepositoryError", state)
    ELSE Ok([InitialState(state.repo_url) EXCEPT
               !.db = "Chroma",
               !.messages = Append(state.messages, "Repository indexed successfully"),
               !.report = state.report])

\* structure_analysis.analyze_structure
analyze_structure(state, env) ==
    LET messages == Append(state.messages, "Starting Maven structure analysis...")
    IN  IF ~env.remote
        THEN Ok([state EXCEPT !.messages = Append(messages, "Error during Maven structure analysis"),
                              !.error = "clone failed"])
        ELSE Ok([state EXCEPT !.messages = messages \o <<"Repository cloned successfully",
                                                         "Maven structure analysis completed">>,
                              !.structure_analysis = "directories",
                              !.repo_path = "repo_dir"])

\* discover_components as a stage: its effect on the workflow state
discover_components(state, env) ==
    LET messages == Append(state.messages, "Starting component discovery...")
    IN  IF state.repo_path = "absent" THEN Raises("ComponentDiscoveryError", state)
        ELSE Ok([state EXCEPT !.messages = Append(messages, "Discovered N components"),
                              !.components = "components"])

\* integration_analysis.analyze_integration
analyze_integration(state) == Ok(state)

\* report_generator.generate_report
generate_report(state, env) ==
    IF state.structure_analysis = "absent" \/ state.repo_path = "absent"
    THEN Ok([state EXCEPT !.messages = Append(@, "ERROR: Missing analysis results or repository path"),
                          !.error = "Missing analysis results or repository path"])
    ELSE IF ~env.llm
    THEN Ok([state EXCEPT !.messages = Append(@, "Error generating reports"),
                          !.error = "model failed"])
    ELSE Ok([state EXCEPT !.messages = @ \o <<"Analyzing source packages...",
                                              "Generating final reports...",
                                              "Reports generated successfully">>,
                          !.report = "full_report"])

\* the function the graph holds for a node
RunNode(node, state, env) ==
    CASE node = "index" -> index_repository(state, env)
      [] node = "structure_analysis" -> analyze_structure(state, env)
      [] node = "component_discovery" -> discover_components(state, env)
      [] node = "integration_analysis" -> analyze_integration(state)
      [] node = "quality_assessment" -> generate_report(state, env)
      [] OTHER -> Raises("KeyError", state)

\* how a call of analyze_repository ended
Ended(outcome, exc, state, env, visited) ==
    [op |-> "analyze", outcome |-> outcome, exc |-> exc, url |-> state.repo_url,
     env |-> env, state |-> state, visited |-> visited]

\* analyze_repository(repo_url): create_analysis_workflow, then workflow.invoke
AnalyzeRepository(url, env) ==
    /\ AllIdle
    /\ IF Compile(env.strict) # "compiled"
       THEN /\ last' = Ended("raised", Compile(env.strict), InitialState(url), env, <<>>)
            /\ UNCHANGED <<pc, loc>>
       ELSE /\ pc' = [pc EXCEPT ![1] = EntryPoint]
            /\ loc' = [loc EXCEPT ![1] = [state |-> InitialState(url), env |-> env,
                                          visited |-> <<>>]]
            /\ last' = [op |-> "call"]
    /\ UNCHANGED <<tree, clock, max_size, dir, ino, fresh, origin, graphVars>>

\* the graph runs the node it stands at and moves along the node's edge
StageStep ==
    /\ pc[1] # "idle"
    /\ LET r == RunNode(pc[1], loc[1].state, loc[1].env)
           visited == Append(loc[1].visited, pc[1])
       IN  IF r.raised # "none"
           THEN /\ last' = Ended("raised", r.raised, r.state, loc[1].env, loc[1].visited)
                /\ pc' = [pc EXCEPT ![1] = "idle"]
                /\ loc' = [loc EXCEPT ![1] = NoLocals]
           ELSE IF Successor(pc[1]) = "END"
           THEN /\ last' = Ended("returned", "none", r.state, loc[1].env, visited)
                /\ pc' = [pc EXCEPT ![1] = "idle"]
                /\ loc' = [loc EXCEPT ![1] = NoLocals]
           ELSE /\ pc' = [pc EXCEPT ![1] = Successor(pc[1])]
                /\ loc' = [loc EXCEPT ![1] = [state |-> r.state, env |-> loc[1].env,
                                              visited |-> visited]]
                /\ UNCHANGED last
    /\ UNCHANGED <<tree, clock, max_size, dir, ino, fresh, origin, graphVars>>

InitFlow ==
    /\ g = NewGraph
    /\ hcRes = "none"
    /\ IdleCache

NextFlow ==
    \/ \E url \in Urls : \E env \in Envs : AnalyzeRepository(url, env)
    \/ StageStep

SpecFlow == InitFlow /\ [][NextFlow]_vars

----------------------------------------------------------------------------
(* The cache key under every enumeration of the tree.  os.walk hands out the *)
(* subdirectories of a directory in the order the file system lists them and  *)
(* walks each subtree as a whole; _get_cache_key sorts the file names of one  *)
(* directory only.                                                           *)

\* the place of file f in walk w
WalkPos(w, f) == CHOOSE i \in DOMAIN w : w[i] = f

\* the orders in which os.walk can meet the files: src/test/java before or
\* after src/main/java, and under src/main/java the files of a/ (f1, f2) next
\* to each other
WalkOrders ==
    { w \in Perms(Files) :
        /\ WalkPos(w, "f3") \in {1, Len(w)}
        /\ ~(  WalkPos(w, "f1") < WalkPos(w, "f4") /\ WalkPos(w, "f4") < WalkPos(w, "f2"))
        /\ ~(  WalkPos(w, "f2") < WalkPos(w, "f4") /\ WalkPos(w, "f4") < WalkPos(w, "f1")) }

\* ComponentCache._get_cache_key when os.walk meets the files in order walk
get_cache_key(t, walk) == <<RepoPath>> \o KeyParts(t, walk)

\* one call of _get_cache_key; the history keeps the call before it
GetCacheKey(walk) ==
    /\ AllIdle
    /\ last' = [op |-> "key", tree |-> tree, walk |-> walk, key |-> get_cache_key(tree, walk),
                prev |-> IF last.op = "key" THEN <<last.key>> ELSE <<>>]
    /\ UNCHANGED <<tree, clock, max_size, dir, ino, pc, loc, fresh, origin, graphVars>>

InitKey ==
    /\ g = NewGraph
    /\ hcRes = "none"
    /\ tree \in [Files -> 0..1]
    /\ clock = 1
    /\ max_size = 0
    /\ dir = <<>>
    /\ ino = <<>>
    /\ pc = [p \in Procs |-> "idle"]
    /\ loc = [p \in Procs |-> NoLocals]
    /\ last = [op |-> "none"]
    /\ fresh = NoSave
    /\ origin = <<>>

NextKey == \E walk \in WalkOrders : GetCacheKey(walk)

SpecKey == InitKey /\ [][NextKey]_vars

----------------------------------------------------------------------------
(* discover_components while the source tree is edited: the edits of another *)
(* process fall between any two statements of the run.                       *)

InitRace == InitCache

NextRace ==
    \/ RunCall
    \/ RunLoad
    \/ RunScan("main")
    \/ RunScan("test")
    \/ RunResolve
    \/ RunCycles
    \/ RunSave
    \/ RunReturn
    \/ \E f \in EditedFiles : \E m \in 0..MaxClock : TreeChange(f, m)

SpecRace == InitRace /\ [][NextRace]_vars

----------------------------------------------------------------------------
(* discover_components on trees that hold files a scan makes no component   *)
(* of: an invalid package group, a file that is not text, a file that       *)
(* cannot be opened.                                                        *)

InitSkip ==
    /\ g = NewGraph
    /\ hcRes = "none"
    /\ tree \in [AllFiles -> 0..1]
    /\ clock = 1
    /\ max_size \in {0, MaxBudget}
    /\ dir = <<>>
    /\ ino = <<>>
    /\ pc = [p \in Procs |-> "idle"]
    /\ loc = [p \in Procs |-> NoLocals]
    /\ last = [op |-> "none"]
    /\ fresh = NoSave
    /\ origin = <<>>

NextSkip ==
    \/ RunCall
    \/ RunLoad
    \/ RunScan("main")
    \/ RunScan("test")
    \/ RunResolve
    \/ RunCycles
    \/ RunSave
    \/ RunReturn

SpecSkip == InitSkip /\ [][NextSkip]_vars

----------------------------------------------------------------------------
(* C1 *)

RECURSIVE ReachFrom(_, _)
\* the names reachable from the set S over one or more forward edges
ReachFrom(E, S) ==
    LET nxt == S \cup { e[2] : e \in { x \in E : x[1] \in S } }
    IN  IF nxt = S THEN S ELSE ReachFrom(E, nxt)

\* the forward edge set contains a directed cycle (a self-loop counts)
Cyclic(gr) ==
    \E e \in Edges(gr) : e[1] \in ReachFrom(Edges(gr), {e[2]})

\* C1: has_cycles() returns true if and only if the forward edge set contains a
\* directed cycle, for every graph built by add_node and add_edge calls.
C1_HasCyclesIffCycle ==
    hcRes # "none" => /\ hcRes \in {"true", "false"}
                      /\ (hcRes = "true") <=> Cyclic(g)

----------------------------------------------------------------------------
(* C2 *)

\* a load made after a completed save with no source edit and no other save between
LoadAfterSave(n) ==
    /\ last.op = "load"
    /\ last.fresh.valid
    /\ last.fresh.changes = n

\* C2: save followed by load on an unchanged tree returns a hit whose component
\* map (all fields) and edge set equal the ones saved, whatever the cache
\* directory held before and whatever the budget.
C2_RoundTrip ==
    LoadAfterSave(0) =>
        /\ last.res.kind = "hit"
        /\ last.res.components.val = last.fresh.components.val
        /\ Edges(last.res.graph) = Edges(last.fresh.graph)

\* a round trip of two components with edges, over an older entry of the same key
C2_Witness ==
    /\ LoadAfterSave(0)
    /\ last.res.kind = "hit"
    /\ Len(last.res.components.keys) = 2
    /\ Edges(last.res.graph) # {}
    /\ clock = 3
    /\ Cardinality(EntryPaths(dir)) = 1

----------------------------------------------------------------------------
(* C3 *)

\* C3 as stated: after a save, one addition, removal or mtime change of a source
\* file makes the next load report a miss.
C3_MissAfterChange ==
    LoadAfterSave(1) => last.res.kind = "miss"

\* C3 amended: after a save, one addition, removal or mtime change of a source
\* file changes the fingerprint, and the next load never returns the entry saved
\* for the earlier tree state: it reports a miss, or returns an entry that a save
\* stored for exactly the tree state that is now current.
C3_NeverStaleEntry ==
    LoadAfterSave(1) =>
        /\ CacheKey(last.tree) # last.fresh.key
        /\ last.res.kind \in {"miss", "hit"}
        /\ last.res.kind = "hit" => last.from = <<last.tree>> /\ last.from # <<last.fresh.tree>>

\* one edit after a save, and the load hits an entry saved earlier for the new state
C3_Witness ==
    /\ LoadAfterSave(1)
    /\ last.res.kind = "hit"

----------------------------------------------------------------------------
(* C4 *)

\* text is an entry as one save call wrote it, start to end, for tree t
CompleteEntry(text, t) ==
    \E ts \in 1..clock :
        text = JsonDump(SaveData(Discovered(t).components, Discovered(t).graph, ts))

\* C4: when the process dies inside save, a later load for that fingerprint
\* returns a complete entry written earlier, or a miss, never a partial entry.
C4_CrashSafe ==
    (last.op = "load" /\ last.after.op = "crash") =>
        \/ last.res.kind = "miss"
        \/ /\ last.res.kind = "hit"
           /\ last.from # <<>>
           /\ CompleteEntry(last.text, last.from[1])

\* the save died with half of the temporary file written, over an older entry
C4_Witness ==
    /\ last.op = "load"
    /\ last.after.op = "crash"
    /\ last.after.at = "write"
    /\ \E q \in DOMAIN dir : q.ext = "tmp" /\ q.key = CacheKey(tree) /\ Len(ino[dir[q]].text) = 1
    /\ last.res.kind = "hit"

----------------------------------------------------------------------------
(* C5 *)

\* C5: with two runs saving concurrently for the same root and fingerprint,
\* every load made during or after the saves reads the old complete entry or one
\* saver's new complete entry, never a partly written file or a mixture.
C5_OldOrNewComplete ==
    last.op = "load" =>
        IF last.exists
        THEN CompleteEntry(last.text, last.tree) /\ last.res.kind = "hit"
        ELSE last.res.kind = "miss"

----------------------------------------------------------------------------
(* C6 *)

RECURSIVE SumOver(_, _)
SumOver(f, S) ==
    IF S = {} THEN 0
    ELSE LET q == CHOOSE r \in S : TRUE IN f[q] + SumOver(f, S \ {q})

\* C6: eviction removes exactly the shortest prefix of the cache files ordered
\* oldest-modification-time-first whose removal brings the total size to at or
\* below the budget: nothing when the total is within budget already, no file
\* once the total is within budget, and never a file while a strictly older one
\* is kept.
C6_ShortestOldestPrefix ==
    last.op = "cleanup" =>
        LET files == DOMAIN last.size
            total == SumOver(last.size, files)
            gone == last.gone
            n == Cardinality(gone)
            s == last.sorted
        IN  /\ Range(s) = files /\ Len(s) = Cardinality(files)
            /\ \A i, j \in DOMAIN s : i < j => last.mtime[s[i]] <= last.mtime[s[j]]
            /\ gone = { s[i] : i \in 1..n }
            /\ total - SumOver(last.size, gone) <= max_size
            /\ \A m \in 0..(n - 1) : total - SumOver(last.size, { s[i] : i \in 1..m }) > max_size
            /\ total <= max_size => gone = {}
            /\ \A q \in gone : \A r \in files \ gone : last.mtime[q] <= last.mtime[r]
            /\ EntryPaths(dir) = files \ gone

\* three files over budget, of which the two oldest go and the newest stays
C6_Witness ==
    /\ last.op = "cleanup"
    /\ Cardinality(DOMAIN last.size) = 3
    /\ Cardinality(last.gone) = 2
    /\ max_size > 0

----------------------------------------------------------------------------
(* C7 *)

\* C7: after any save completes, the total size of the cache entry files is at
\* most the configured maximum cache size.
C7_WithinBudgetAfterSave ==
    (last.op = "save" /\ last.ok) => TotalSize(dir, ino) <= max_size

----------------------------------------------------------------------------
(* C8 *)

\* the text parses to a JSON object
ParsesToObject(text) == JsonLoad(text).err = "none" /\ JsonLoad(text).kind = "object"

\* a component record that lacks a field or fails the validation of Component
InvalidCompRecord(t, r) ==
    \/ ~(CompKeys \subseteq DOMAIN r)
    \/ r.name = <<>>
    \/ r.package = <<>>
    \/ ~PathExists(t, r.path)

\* an edge record that is not a list of two names
InvalidEdgeRecord(e) == e.kind # "list" \/ Len(e.items) # 2

\* the entry has a version tag other than '1.0' or an invalid record
InvalidEntry(t, obj) ==
    \/ "version" \in DOMAIN obj /\ obj.version # "1.0"
    \/ "components" \in DOMAIN obj /\ \E i \in DOMAIN obj.components : InvalidCompRecord(t, obj.components[i])
    \/ "edges" \in DOMAIN obj /\ \E i \in DOMAIN obj.edges : InvalidEdgeRecord(obj.edges[i])

\* C8: load never returns a partially reconstructed result: with a version tag
\* other than '1.0' or any invalid component or edge record it returns 'no
\* entry', and a hit holds every component and every edge recorded in the file.
C8_InvalidIsNoEntry ==
    (last.op = "load" /\ last.exists /\ ParsesToObject(last.text)) =>
        LET obj == JsonLoad(last.text).obj
        IN  /\ InvalidEntry(last.tree, obj) => last.res.kind = "miss"
            /\ last.res.kind = "hit" =>
                  /\ \A i \in DOMAIN obj.components :
                        obj.components[i].name \in DOMAIN last.res.components.val
                  /\ \A i \in DOMAIN obj.edges :
                        <<obj.edges[i].items[1], obj.edges[i].items[2]>> \in Edges(last.res.graph)

----------------------------------------------------------------------------
(* C9 *)

\* bad encoding, truncated JSON, or a required key missing
Unreadable(text) ==
    \/ JsonLoad(text).err \in {"UnicodeDecodeError", "JSONDecodeError"}
    \/ /\ ParsesToObject(text)
       /\ ~({"version", "components", "edges"} \subseteq DOMAIN JsonLoad(text).obj)

\* C9: load raises CacheError whenever the cache file of the current fingerprint
\* exists but is structurally unreadable, returns a miss without raising on any
\* other I/O condition, and reports an absent file as a miss.
C9_ErrorIffUnreadable ==
    last.op = "load" =>
        /\ ~last.exists => last.res.kind = "miss"
        /\ (last.exists /\ Unreadable(last.text)) => last.res.kind = "CacheError"
        /\ (last.exists /\ JsonLoad(last.text).err = "IsADirectoryError") => last.res.kind = "miss"

----------------------------------------------------------------------------
(* C10 *)

----------------------------------------------------------------------------
(* C11 *)

\* C11: after any sequence of add_node and add_edge calls, every component that
\* is the source or the target of an edge has an entry, possibly empty, in both
\* the forward and the reverse adjacency map.
C11_EdgeEndsHaveEntries ==
    \A e \in Edges(g) :
        /\ {e[1], e[2]} \subseteq DOMAIN g.fwd
        /\ {e[1], e[2]} \subseteq DOMAIN g.rev

----------------------------------------------------------------------------
(* C12 *)

\* C12: forward and reverse adjacency stay in lock-step: in every state reached
\* by add_node and add_edge, b is in get_dependencies(a) if and only if a is in
\* get_dependents(b).
C12_LockStep ==
    \A a \in GraphNames(g) : \A b \in GraphNames(g) :
        (b \in get_dependencies(g, a)) <=> (a \in get_dependents(g, b))

----------------------------------------------------------------------------
(* C13 *)

\* C13: add_edge is idempotent: add_edge(a, b) called again, at any point after
\* the call that added the edge, leaves the forward map, the reverse map and the
\* node set as they are.
C13_AddEdgeIdempotent ==
    \A e \in Edges(g) : add_edge(g, e[1], e[2]) = g

----------------------------------------------------------------------------
(* C14 *)

\* the call of discover_components that came last returned
Returned(via) == last.op = "discover" /\ last.outcome = "returned" /\ last.via = via

\* C14: on a cache hit discover_components returns exactly the component map
\* and graph load produced, scans nothing, resolves no edge, does not call save
\* and leaves the cache directory as it was.
C14_HitReturnsLoadOnly ==
    (last.op = "discover" /\ load(tree, last.dir0, last.ino0).kind = "hit") =>
        /\ Returned("cache")
        /\ last.components = load(tree, last.dir0, last.ino0).components
        /\ last.graph = load(tree, last.dir0, last.ino0).graph
        /\ last.steps = <<"load">>
        /\ last.saved = <<>>
        /\ dir = last.dir0
        /\ ino = last.ino0

\* a hit that returns components with edges between them
C14_Witness ==
    /\ Returned("cache")
    /\ Len(last.components.keys) >= 2
    /\ Edges(last.graph) # {}

----------------------------------------------------------------------------
(* C15 *)

\* C15: on a miss discover_components runs load, the scan of the main root, the
\* scan of the test root, edge resolution, the cycle check and save in this
\* order and returns; save is called once, after all nodes and edges are in the
\* graph, with the component map and the graph that are returned.
C15_MissOrder ==
    Returned("scan") =>
        /\ last.steps = <<"load", "scan_main", "scan_test", "resolve", "cycles", "save">>
        /\ Len(last.saved) = 1
        /\ last.saved[1].components = last.components
        /\ last.saved[1].graph = last.graph
        /\ Range(last.components.keys) \subseteq DOMAIN last.saved[1].graph.fwd
        /\ EdgePairs(last.components) \subseteq Edges(last.saved[1].graph)

\* a miss that returns three components with edges
C15_Witness ==
    /\ Returned("scan")
    /\ Len(last.components.keys) = 3
    /\ Edges(last.graph) # {}

----------------------------------------------------------------------------
(* C16 *)

\* C16: every failure on the miss path, in a scan, in edge resolution, in the
\* cycle check or in save, reaches the caller as a ComponentDiscoveryError that
\* wraps the cause; nothing else escapes, and what a call returns on the miss
\* path is the whole result of the scan, never a part of it.
C16_FailuresWrapped ==
    last.op = "discover" =>
        /\ last.outcome \in {"returned", "raised"}
        /\ last.outcome = "raised" =>
              /\ last.exc.type = "ComponentDiscoveryError"
              /\ last.exc.cause \in Exceptions
              /\ DOMAIN last \cap {"components", "graph"} = {}
        /\ Returned("scan") =>
              /\ last.components = Discovered(tree).components
              /\ Edges(last.graph) = Edges(Discovered(tree).graph)

\* save fails with an OSError after the scan found components
C16_Witness ==
    /\ last.op = "discover"
    /\ last.outcome = "raised"
    /\ last.stage = "save"
    /\ last.exc.cause = "OSError"
    /\ "cycles" \in Range(last.steps)

----------------------------------------------------------------------------
(* C17 *)

\* C17: cycles are reported and never fatal: whenever discover_components
\* returns a graph that holds a directed cycle, the returned messages hold the
\* circular-dependency warning.
C17_CycleWarned ==
    (last.op = "discover" /\ last.outcome = "returned" /\ Cyclic(last.graph)) =>
        "Warning: Circular dependencies detected" \in Range(last.messages)

----------------------------------------------------------------------------
(* C18 *)

\* the (package, source root) groups of tree t; each passes validation
Groups(t) ==
    { <<FileContent(f).package, FileRoot(f)>> : f \in { x \in Files : t[x] > 0 } }

\* C18: component names are unique within a run: every (package, source root)
\* group that passes validation has its own entry in the returned component
\* map, so the map has as many entries as there are groups.
C18_OneEntryPerGroup ==
    Returned("scan") =>
        /\ Len(last.components.keys) = Cardinality(Groups(tree))
        /\ \A gp \in Groups(tree) :
              \E n \in DOMAIN last.components.val :
                 /\ last.components.val[n].package = gp[1]
                 /\ last.components.val[n].is_test = (gp[2] = "test")

----------------------------------------------------------------------------
(* C19 *)

\* p is a textual prefix of s
IsPrefix(p, s) == \E n \in 0..Len(s) : SubSeq(s, 1, n) = p

\* C19: after edge resolution on the miss path, for all distinct discovered
\* components C and D the graph has the edge C -> D if and only if some raw
\* dependency string of C is a textual prefix of the package of D.
C19_EdgeIffPrefix ==
    Returned("scan") =>
        \A c \in DOMAIN last.components.val : \A d \in DOMAIN last.components.val :
            c # d =>
                ((<<c, d>> \in Edges(last.graph)) <=>
                 (\E dep \in last.components.val[c].dependencies :
                      IsPrefix(dep, last.components.val[d].package)))

\* an edge owed to a prefix that ends inside a segment: a.b matches a.bc
C19_Witness ==
    /\ Returned("scan")
    /\ \E c \in DOMAIN last.components.val : \E d \in DOMAIN last.components.val :
          /\ c # d
          /\ <<c, d>> \in Edges(last.graph)
          /\ \A dep \in last.components.val[c].dependencies :
                IsPrefix(dep, last.components.val[d].package) =>
                    /\ Len(dep) < Len(last.components.val[d].package)
                    /\ last.components.val[d].package[Len(dep) + 1] # "."

----------------------------------------------------------------------------
(* C20 *)

\* the entry of tree t is a readable entry of version 1.0 in which a component
\* or an edge record is malformed
BadRecordEntry(t, d, fs) ==
    /\ CachePath(CacheKey(t)) \in DOMAIN d
    /\ LET text == fs[d[CachePath(CacheKey(t))]].text
       IN  /\ ParsesToObject(text)
           /\ {"version", "components", "edges"} \subseteq DOMAIN JsonLoad(text).obj
           /\ JsonLoad(text).obj.version = "1.0"
           /\ InvalidEntry(t, JsonLoad(text).obj)

\* C20: when the entry of the current fingerprint holds a malformed component
\* or edge record, discover_components rescans: it does not fail, it returns the
\* freshly scanned result, and it replaces the entry by a valid one, so that the
\* next run on the unchanged tree is a hit.
C20_BadRecordRescans ==
    (/\ last.op = "discover"
     /\ BadRecordEntry(tree, last.dir0, last.ino0)
     /\ last.outcome = "raised" => last.stage = "load") =>
        /\ Returned("scan")
        /\ last.components = Discovered(tree).components
        /\ Edges(last.graph) = Edges(Discovered(tree).graph)
        /\ load(tree, dir, ino).kind = "hit"
        /\ ~BadRecordEntry(tree, dir, ino)

----------------------------------------------------------------------------
(* C21 *)

\* the order of the stages of a run
StageOrder == <<"index">> \o tasks \o <<"save">>

RECURSIVE FlowReach(_)
\* the nodes reached from a set of nodes along the edges of the workflow
FlowReach(S) ==
    LET T == S \cup { e[2] : e \in { d \in WorkflowEdges : d[1] \in S } }
    IN  IF T = S THEN S ELSE FlowReach(T)

\* C21: a run of analyze_repository executes the stages in the order index,
\* structure_analysis, component_discovery, integration_analysis,
\* quality_assessment, save and then ends at END: every stage is a node of the
\* workflow reached from the entry point, a run that returns has run the stages
\* in that order, and its messages record the indexing and the report
\* generation.
C21_StagesInOrder ==
    /\ \A i \in DOMAIN StageOrder :
          StageOrder[i] \in WorkflowNodes /\ StageOrder[i] \in FlowReach({EntryPoint})
    /\ "END" \in FlowReach({EntryPoint})
    /\ (last.op = "analyze" /\ last.outcome = "returned") =>
          /\ last.visited = StageOrder
          /\ "Repository indexed successfully" \in Range(last.state.messages)
          /\ "Reports generated successfully" \in Range(last.state.messages)

----------------------------------------------------------------------------
(* C22 *)

\* the repository URL is invalid, or the repository cannot be reached
InvalidRepo(url, env) == validate_repo_url(url) # "ok" \/ ~env.remote

\* the message mentions 'Error'
MentionsError(m) == m \in {"Error during Maven structure analysis", "Error generating reports",
                           "Error during component discovery"}

\* C22: for an invalid or inaccessible repository URL analyze_repository
\* returns instead of raising: the result has a non-empty 'error' and a message
\* mentioning 'Error', and no stage's failure leaves the workflow as an
\* exception.
C22_InvalidRepoReturnsError ==
    (last.op = "analyze" /\ InvalidRepo(last.url, last.env)) =>
        /\ last.outcome = "returned"
        /\ last.state.error \notin {"absent", ""}
        /\ \E i \in DOMAIN last.state.messages : MentionsError(last.state.messages[i])

----------------------------------------------------------------------------
(* C23 *)

\* C23: edge resolution joins a component only to other components: no graph
\* that discover_components returns has an edge from a component to itself.
C23_NoSelfLoop ==
    (last.op = "discover" /\ last.outcome = "returned") =>
        \A e \in Edges(last.graph) : e[1] # e[2]

----------------------------------------------------------------------------
(* C24 *)

\* C24: the cache key is a function of the root path and of the set of
\* (path, mtime) pairs of the source files alone: two calls on the same tree
\* give the same key, in whatever order the file system enumerates the tree.
C24_KeyIgnoresWalkOrder ==
    (last.op = "key" /\ last.prev # <<>>) => last.key = last.prev[1]

----------------------------------------------------------------------------
(* C25 *)

\* C25: every cache hit returns what a fresh scan of the current tree would
\* produce, also when the tree is edited while a run is between its scan and
\* its save: no entry is stored under the fingerprint of a tree state other
\* than the one that was scanned.
C25_HitIsFreshScan ==
    /\ Returned("cache") =>
          /\ last.components = Discovered(tree).components
          /\ Edges(last.graph) = Edges(Discovered(tree).graph)
    /\ \A q \in DOMAIN dir : q.ext = "json" => CompleteEntry(ino[dir[q]].text, origin[q])

----------------------------------------------------------------------------
(* C26 *)

\* tree state t without the files of F
TreeWithout(t, F) == [f \in DOMAIN t |-> IF f \in F THEN 0 ELSE t[f]]

\* has_cycles can raise on the graph discovered for tree state t
CyclesCanRaise(t) ==
    \E ord \in SetOrders(Discovered(t).graph) :
        has_cycles(Discovered(t).graph, ord).res = "RuntimeError"

\* C26: a package group whose component fails the construction invariants is
\* skipped with a message: it adds no entry to the component map and no node to
\* the graph, the other groups are discovered as they are without it, and the
\* group makes no run fail: a run that raises raises without the group too.
C26_InvalidGroupSkipped ==
    (last.op = "discover" /\ "f5" \in DOMAIN tree /\ tree["f5"] > 0) =>
        /\ (last.outcome = "returned" /\ last.via = "scan") =>
              /\ "Skipping invalid component" \in Range(last.messages)
              /\ <<>> \notin Range(last.components.keys)
              /\ <<>> \notin GraphNames(last.graph)
              /\ last.components = Discovered(TreeWithout(tree, {"f5"})).components
              /\ Edges(last.graph) = Edges(Discovered(TreeWithout(tree, {"f5"})).graph)
        /\ last.outcome = "raised" =>
              CyclesCanRaise(TreeWithout(tree, {"f5"})) \/ KeyFails(TreeWithout(tree, {"f5"}))

\* a scan of a tree with the invalid group and two valid ones has returned
C26_Witness ==
    /\ last.op = "discover"
    /\ last.outcome = "returned"
    /\ last.via = "scan"
    /\ tree["f5"] > 0
    /\ "Skipping invalid component" \in Range(last.messages)
    /\ Len(last.components.keys) >= 2

----------------------------------------------------------------------------
(* C27 *)

\* C27: a source file that cannot be read or decoded is skipped and reported
\* as a message; it never aborts the run, and all other files are scanned,
\* aggregated and cached as they are without it.
C27_UnreadableFileSkipped ==
    (last.op = "discover" /\ \E f \in {"f6", "f7"} : f \in DOMAIN tree /\ tree[f] > 0) =>
        /\ (last.outcome = "returned" /\ last.via = "scan") =>
              /\ tree["f6"] > 0 => "Skipping binary file: f6" \in Range(last.messages)
              /\ tree["f7"] > 0 => "Error reading f7" \in Range(last.messages)
              /\ last.components = Discovered(TreeWithout(tree, {"f6", "f7"})).components
              /\ Edges(last.graph) = Edges(Discovered(TreeWithout(tree, {"f6", "f7"})).graph)
              /\ last.saved = <<[components |-> last.components, graph |-> last.graph]>>
              /\ load(tree, dir, ino).kind = "hit"
              /\ load(tree, dir, ino).components = last.components
        /\ last.outcome = "raised" => CyclesCanRaise(TreeWithout(tree, {"f6", "f7"}))

----------------------------------------------------------------------------
(* C28 *)

\* C28: on every graph built by add_node and add_edge calls, also one with an
\* edge target that was never passed to add_node, has_cycles() ends by
\* returning a boolean, raises nothing, and leaves the nodes and the forward and
\* reverse edge sets as they were.
C28_HasCyclesTotalAndPure ==
    [][hcRes' # "none" =>
          /\ hcRes' \in {"true", "false"}
          /\ DOMAIN g'.fwd = DOMAIN g.fwd
          /\ g'.fwd = g.fwd
          /\ g'.rev = g.rev]_vars

----------------------------------------------------------------------------
(* C29 *)

\* C29: in every result discover_components returns, from a scan or from the
\* cache, every component of the map is a node of the graph: a component
\* without edges comes back from save and load as an isolated node, and the
\* loaded graph has the nodes of the graph that was saved.
C29_ComponentsAreNodes ==
    (last.op = "discover" /\ last.outcome = "returned") =>
        /\ Range(last.components.keys) \subseteq DOMAIN last.graph.fwd
        /\ Range(last.components.keys) \subseteq DOMAIN last.graph.rev
        /\ last.via = "cache" => DOMAIN last.graph.fwd = DOMAIN Discovered(tree).graph.fwd

----------------------------------------------------------------------------
(* C30 *)

\* C30: of two consecutive discover_components calls on an unchanged tree with
\* a working cache, the first of which returns, the second is a cache hit (the
\* first missed and saved, or hit itself) and returns the component map and
\* the edge set the first returned.
C30_SecondCallHitsSame ==
    (last.op = "discover" /\ last.prev.op = "discover" /\ last.prev.outcome = "returned") =>
        /\ last.outcome = "returned"
        /\ last.via = "cache"
        /\ last.components = last.prev.components
        /\ Edges(last.graph) = Edges(last.prev.graph)

\* the first call scanned three components with edges between them and saved,
\* the second returned from the cache
C30_Witness ==
    /\ last.op = "discover"
    /\ last.outcome = "returned"
    /\ last.via = "cache"
    /\ last.prev.op = "discover"
    /\ last.prev.outcome = "returned"
    /\ last.prev.via = "scan"
    /\ Len(last.components.keys) = 3
    /\ Cardinality(Edges(last.graph)) >= 3

====
